---- MODULE Spec2Model ----
(***************************************************************************)
(* Model of the GrapesJS / CKEditor 4 inline-edit plugin                   *)
(* (src/src/components/editor/ckeditor.ts).                                *)
(*                                                                         *)
(* Strings that the code inspects character by character (the autocomplete *)
(* text, the suggestion names, the query) are sequences of UTF-16 code     *)
(* units.  The extraPlugins string is a sequence of tokens, "," being a    *)
(* token of its own.  Editor instances are numbered 1, 2, ... in the order *)
(* ck.inline created them; 0 stands for undefined.                         *)
(***************************************************************************)
EXTENDS Integers, Sequences, FiniteSets, TLC

VARIABLES
    ckeditor,        \* opts.ckeditor: "none" | "url" | "ctor" | "noinline"
    globalAtInit,    \* window.CKEDITOR when plugin() ran: "undef" | "G"
    windowCK,        \* window.CKEDITOR now
    ck,              \* the closure variable ck: "undef" | "X" | "G"
    dynamicLoad,     \* the closure variable dynamicLoad
    scriptLoaded,    \* the script element's onload has fired
    customRte,       \* editor.setCustomRte(...) was called
    posListener,     \* editor.on("rteToolbarPosUpdate", ...) was called
    logCount,        \* number of editor.log(..., error) calls
    callerPlugins,   \* options.extraPlugins as the caller wrote it
    optsPlugins,     \* opts.options.extraPlugins now
    contentEditable, \* el.contentEditable of each element
    hostRte,         \* the instance the host holds for each element
    insts,           \* the editor instances created by ck.inline
    customAutocomplete, \* ck.plugins.customAutocomplete is set
    addCalls,        \* number of ck.plugins.add("customautocomplete") calls
    lastOp,          \* the step just taken: enable or disable with its element,
                     \* argument and result, or an event
    text, offset, collapsed, matchResult,   \* textTestCallback input and result
    suggestions, query, dataResult          \* dataCallback input and result

pluginVars == <<ckeditor, globalAtInit, windowCK, ck, dynamicLoad, scriptLoaded,
                customRte, posListener, logCount, callerPlugins, optsPlugins,
                contentEditable, hostRte, insts, customAutocomplete, addCalls,
                lastOp>>
matchVars == <<text, offset, collapsed, matchResult>>
dataVars == <<suggestions, query, dataResult>>
vars == <<pluginVars, matchVars, dataVars>>

\* ---- bounds ----
MaxInst == 2
MaxLog == 1
MaxLen == 3
MaxSuggestions == 2
MaxQuery == 2

Elements == {"e1", "e2"}
NoOp == [op |-> "init", el |-> "-", arg |-> 0, ret |-> 0, hadFocus |-> FALSE]
\* what lastOp holds after a step that is no call of enable or disable
Event == [NoOp EXCEPT !.op = "event"]

\* ---- strings ----
\* the code units the texts are built from: space A [ ] _ a
Alphabet == {32, 65, 91, 93, 95, 97}
\* the suggestion names "Alpha", "Beta" and "alpha"
Names == {<<65, 108, 112, 104, 97>>, <<66, 101, 116, 97>>, <<97, 108, 112, 104, 97>>}
\* the code units typed after "[[" in a query: A B a l
QueryChars == {65, 66, 97, 108}
Null == [start |-> -1, end |-> -1]

RECURSIVE SeqsUpTo(_, _)
SeqsUpTo(S, n) ==
    IF n = 0 THEN {<<>>}
    ELSE LET shorter == SeqsUpTo(S, n - 1)
         IN shorter \cup {Append(s, c) : s \in shorter, c \in S}

\* String.prototype.slice(0, n) for 0 <= n
slice(s, n) == SubSeq(s, 1, IF n < Len(s) THEN n ELSE Len(s))

\* String.prototype.toLowerCase on the ASCII range
toLowerCase(s) == [i \in 1..Len(s) |-> IF s[i] \in 65..90 THEN s[i] + 32 ELSE s[i]]

\* String.prototype.indexOf: the least 0-based index where q occurs in s, or -1
indexOf(s, q) ==
    LET hits == {i \in 0..(Len(s) - Len(q)) : SubSeq(s, i + 1, i + Len(q)) = q}
    IN IF hits = {} THEN -1 ELSE CHOOSE i \in hits : \A j \in hits : i <= j

\* the character class ([A-z]|\]) of the pattern
inClass(c) == c \in 65..122 \/ c = 93

\* text.match(/\[{2}([A-z]|\])*$/): the least 0-based index where the pattern
\* matches up to the end of s, or -1
matchIndex(s) ==
    LET hits == {i \in 0..(Len(s) - 2) :
                    /\ s[i + 1] = 91 /\ s[i + 2] = 91
                    /\ \A j \in (i + 3)..Len(s) : inClass(s[j])}
    IN IF hits = {} THEN -1 ELSE CHOOSE i \in hits : \A j \in hits : i <= j

matchCallback(t, off) ==
    LET index == matchIndex(slice(t, off))
    IN IF index = -1 THEN Null ELSE [start |-> index, end |-> off]

textTestCallback(isCollapsed, t, off) ==
    IF ~isCollapsed THEN Null ELSE matchCallback(t, off)

itemName(name) == <<91, 91>> \o name \o <<93, 93>>

dataCallback(items, q) ==
    SelectSeq(items, LAMBDA name : indexOf(itemName(name), toLowerCase(q)) = 0)

\* ---- plugin(editor, options): resolving the editor library ----
\* the value of ck when plugin() reaches line 102; "X" is the constructor the
\* caller supplied, "G" the one held by window.CKEDITOR
resolveCk(c, g) ==
    IF g = "undef"
    THEN IF c # "none"
         THEN IF c = "url" THEN "undef"
              ELSE IF c = "ctor" THEN "X" ELSE "undef"
         ELSE g
    ELSE g

\* the value of dynamicLoad when plugin() reaches line 102
resolveDynamicLoad(c, g) == g = "undef" /\ c = "url"

\* if (!ck && !dynamicLoad) return logCkError();
initFails(c, g) == resolveCk(c, g) = "undef" /\ ~resolveDynamicLoad(c, g)

NoPlugins == [kind |-> "none", val |-> <<>>]
PluginOptions ==
    { NoPlugins,
      [kind |-> "string", val |-> <<"a", ",", "b">>],
      [kind |-> "array", val |-> <<"a", "b">>] }

\* the state once plugin(editor, {ckeditor: c, options: {extraPlugins: p}})
\* has returned, window.CKEDITOR being g
plugin(c, g, p) ==
    /\ ckeditor = c
    /\ globalAtInit = g
    /\ windowCK = g
    /\ ck = resolveCk(c, g)
    /\ dynamicLoad = resolveDynamicLoad(c, g)
    /\ scriptLoaded = FALSE
    /\ customRte = ~initFails(c, g)
    /\ posListener = ~initFails(c, g)
    /\ logCount = IF initFails(c, g) THEN 1 ELSE 0
    /\ callerPlugins = p
    /\ optsPlugins = p
    /\ contentEditable = [e \in Elements |-> "inherit"]
    /\ hostRte = [e \in Elements |-> 0]
    /\ insts = <<>>
    /\ customAutocomplete = FALSE
    /\ addCalls = 0
    /\ lastOp = NoOp

Pending == [start |-> -2, end |-> -2]
NoData == [done |-> FALSE, data |-> <<>>]

MatchIdle == text = <<>> /\ offset = 0 /\ collapsed = TRUE /\ matchResult = Pending
DataIdle == suggestions = <<>> /\ query = <<>> /\ dataResult = NoData

Init ==
    /\ \E c \in {"none", "url", "ctor", "noinline"}, g \in {"undef", "G"},
          p \in PluginOptions : plugin(c, g, p)
    /\ MatchIdle
    /\ DataIdle

\* ---- the script element's onload ----
\* the fetched script is the editor library: it defines window.CKEDITOR, and
\* the onload handler then copies the global into ck
ScriptOnload ==
    /\ dynamicLoad /\ ~scriptLoaded
    /\ scriptLoaded' = TRUE
    /\ windowCK' = "G"
    /\ ck' = windowCK'
    /\ lastOp' = Event
    /\ UNCHANGED <<ckeditor, globalAtInit, dynamicLoad, customRte, posListener,
                   logCount, callerPlugins, optsPlugins, contentEditable, hostRte,
                   insts, customAutocomplete, addCalls>>

\* ---- enable(el, rte) ----
\* the status comparison inverted
ReusableMut(rte) == rte # 0 /\ insts[rte].status = "destroyed"

\* if (rte && rte.status != "destroyed")
Reusable(rte) == rte # 0 /\ insts[rte].status # "destroyed"

\* the check for a missing constructor dropped
CkMissingMut == FALSE

\* if (!ck)
CkMissing == ck = "undef"

\* focus() forgetting to mark the element editable
focusContentEditableMut(hf, old) == old

\* focus(): el.contentEditable after the call, hf being
\* rte.focusManager.hasFocus when focus() was entered
focusContentEditable(hf, old) == IF hf THEN old ELSE "true"

\* child.style.display = "none" for every child of the toolbar container
hideToolbars(is) ==
    [i \in 1..Len(is) |->
        IF is[i].toolbar = "absent" THEN is[i] ELSE [is[i] EXCEPT !.toolbar = "none"]]

\* ckOptions.extraPlugins once lines 145-156 ran
mergedPlugins(p) ==
    IF p.kind = "none" THEN [kind |-> "string", val |-> <<"sharedspace">>]
    ELSE IF p.kind = "string" THEN [p EXCEPT !.val = p.val \o <<",", "sharedspace">>]
    ELSE [p EXCEPT !.val = Append(p.val, "sharedspace")]

\* opts.options.extraPlugins once lines 145-156 ran: { ...opts.options } copies
\* the property, so a string is left alone and an array is the same array
optionsAfterMerge(p) ==
    IF p.kind = "array" THEN mergedPlugins(p) ELSE p

\* if (!ck.plugins.customAutocomplete) ck.plugins.add("customautocomplete", ...)
addCallsAfter(n, registered) == IF registered THEN n ELSE n + 1

EnableReuse(e, rte) ==
    LET hf == insts[rte].hasFocus IN
    /\ contentEditable' = [contentEditable EXCEPT ![e] = focusContentEditable(hf, @)]
    /\ IF hf
       THEN UNCHANGED insts
       ELSE \E nowFocused \in BOOLEAN :
               insts' = [insts EXCEPT ![rte].hasFocus = nowFocused]
    /\ hostRte' = [hostRte EXCEPT ![e] = rte]
    /\ lastOp' = [op |-> "enable", el |-> e, arg |-> rte, ret |-> rte, hadFocus |-> hf]
    /\ UNCHANGED <<logCount, optsPlugins, addCalls>>

EnableFail(e, rte) ==
    /\ logCount < MaxLog
    /\ logCount' = logCount + 1
    /\ hostRte' = [hostRte EXCEPT ![e] = 0]
    /\ lastOp' = [op |-> "enable", el |-> e, arg |-> rte, ret |-> 0, hadFocus |-> FALSE]
    /\ UNCHANGED <<contentEditable, insts, optsPlugins, addCalls>>

EnableCreate(e, rte) ==
    LET new == Len(insts) + 1 IN
    /\ new <= MaxInst
    /\ optsPlugins' = optionsAfterMerge(optsPlugins)
    /\ addCalls' = addCallsAfter(addCalls, customAutocomplete)
    /\ \E hf \in BOOLEAN :
          /\ contentEditable' = [contentEditable EXCEPT ![e] = focusContentEditable(hf, @)]
          /\ \E nowFocused \in (IF hf THEN {TRUE} ELSE BOOLEAN) :
                insts' = Append(hideToolbars(insts),
                                [el |-> e, status |-> "unloaded",
                                 hasFocus |-> nowFocused, toolbar |-> "absent",
                                 extraPlugins |-> mergedPlugins(optsPlugins)])
          /\ lastOp' = [op |-> "enable", el |-> e, arg |-> rte, ret |-> new, hadFocus |-> hf]
    /\ hostRte' = [hostRte EXCEPT ![e] = new]
    /\ UNCHANGED logCount

\* focus() and the instanceReady handler also ask the host for a deferred
\* editor.refresh(); the refresh acts on the host's layout only and leaves
\* the state modelled here as it is.

\* the host calls enable(el, rte) with the instance it holds for el and keeps
\* what enable returns
Enable(e) ==
    /\ customRte
    /\ LET rte == hostRte[e] IN
          IF Reusable(rte) THEN EnableReuse(e, rte)
          ELSE IF CkMissing THEN EnableFail(e, rte)
          ELSE EnableCreate(e, rte)
    /\ UNCHANGED <<ckeditor, globalAtInit, windowCK, ck, dynamicLoad, scriptLoaded,
                   customRte, posListener, callerPlugins, customAutocomplete>>

\* ---- disable(el, rte) ----
\* el.contentEditable = "false"
disableContentEditable(old) == "false"

\* disable destroying the instance instead of blurring it
blurMut(is, rte) ==
    IF rte = 0 THEN is
    ELSE [is EXCEPT ![rte].hasFocus = FALSE, ![rte].status = "destroyed"]

\* rte?.focusManager?.blur(true)
blur(is, rte) == IF rte = 0 THEN is ELSE [is EXCEPT ![rte].hasFocus = FALSE]

Disable(e) ==
    /\ customRte
    /\ contentEditable' = [contentEditable EXCEPT ![e] = disableContentEditable(@)]
    /\ insts' = blur(insts, hostRte[e])
    /\ lastOp' = [op |-> "disable", el |-> e, arg |-> hostRte[e], ret |-> 0,
                  hadFocus |-> FALSE]
    /\ UNCHANGED <<ckeditor, globalAtInit, windowCK, ck, dynamicLoad, scriptLoaded,
                   customRte, posListener, logCount, callerPlugins, optsPlugins,
                   hostRte, customAutocomplete, addCalls>>

\* ---- events of the editor library ----
\* onLoad of the registered customautocomplete plugin
PluginOnLoad ==
    /\ addCalls > 0 /\ ~customAutocomplete
    /\ ck # "undef"
    /\ customAutocomplete' = TRUE
    /\ lastOp' = Event
    /\ UNCHANGED <<ckeditor, globalAtInit, windowCK, ck, dynamicLoad, scriptLoaded,
                   customRte, posListener, logCount, callerPlugins, optsPlugins,
                   contentEditable, hostRte, insts, addCalls>>

\* the library appends the instance's toolbar (#cke_<name>) to the shared
\* container; it is taken to stay hidden until instanceReady reveals it
ToolbarRendered(r) ==
    /\ insts[r].status = "unloaded" /\ insts[r].toolbar = "absent"
    /\ insts' = [insts EXCEPT ![r].toolbar = "none"]
    /\ lastOp' = Event
    /\ UNCHANGED <<ckeditor, globalAtInit, windowCK, ck, dynamicLoad, scriptLoaded,
                   customRte, posListener, logCount, callerPlugins, optsPlugins,
                   contentEditable, hostRte, customAutocomplete, addCalls>>

\* toolbar.style.display = "block" when the toolbar is found
revealToolbar(display) == IF display = "absent" THEN display ELSE "block"

\* the instanceReady handlers: the one in the configuration builds the
\* autocomplete from ck.plugins.customAutocomplete, the one added with rte.on
\* reveals the toolbar
InstanceReady(r) ==
    /\ insts[r].status = "unloaded"
    /\ customAutocomplete
    /\ insts' = [insts EXCEPT ![r].status = "ready",
                              ![r].toolbar = revealToolbar(@)]
    /\ lastOp' = Event
    /\ UNCHANGED <<ckeditor, globalAtInit, windowCK, ck, dynamicLoad, scriptLoaded,
                   customRte, posListener, logCount, callerPlugins, optsPlugins,
                   contentEditable, hostRte, customAutocomplete, addCalls>>

\* the library destroys an instance: its status becomes "destroyed" and its
\* toolbar leaves the container
Destroy(r) ==
    /\ insts[r].status # "destroyed"
    /\ insts' = [insts EXCEPT ![r].status = "destroyed", ![r].hasFocus = FALSE,
                              ![r].toolbar = "absent"]
    /\ lastOp' = Event
    /\ UNCHANGED <<ckeditor, globalAtInit, windowCK, ck, dynamicLoad, scriptLoaded,
                   customRte, posListener, logCount, callerPlugins, optsPlugins,
                   contentEditable, hostRte, customAutocomplete, addCalls>>

\* the user moves the focus into a ready instance
FocusEvent(r) ==
    /\ insts[r].status = "ready" /\ ~insts[r].hasFocus
    /\ insts' = [insts EXCEPT ![r].hasFocus = TRUE]
    /\ lastOp' = Event
    /\ UNCHANGED <<ckeditor, globalAtInit, windowCK, ck, dynamicLoad, scriptLoaded,
                   customRte, posListener, logCount, callerPlugins, optsPlugins,
                   contentEditable, hostRte, customAutocomplete, addCalls>>

Next ==
    \/ ScriptOnload /\ UNCHANGED <<matchVars, dataVars>>
    \/ \E e \in Elements : Enable(e) /\ UNCHANGED <<matchVars, dataVars>>
    \/ \E e \in Elements : Disable(e) /\ UNCHANGED <<matchVars, dataVars>>
    \/ PluginOnLoad /\ UNCHANGED <<matchVars, dataVars>>
    \/ \E r \in DOMAIN insts : ToolbarRendered(r) /\ UNCHANGED <<matchVars, dataVars>>
    \/ \E r \in DOMAIN insts : InstanceReady(r) /\ UNCHANGED <<matchVars, dataVars>>
    \/ \E r \in DOMAIN insts : Destroy(r) /\ UNCHANGED <<matchVars, dataVars>>
    \/ \E r \in DOMAIN insts : FocusEvent(r) /\ UNCHANGED <<matchVars, dataVars>>

Spec == Init /\ [][Next]_vars

\* ---- the autocomplete callbacks as functions of their input ----
TextTest ==
    /\ matchResult = Pending
    /\ matchResult' = textTestCallback(collapsed, text, offset)
    /\ UNCHANGED <<text, offset, collapsed, pluginVars, dataVars>>

InitMatch ==
    /\ plugin("ctor", "undef", NoPlugins)
    /\ text \in SeqsUpTo(Alphabet, MaxLen)
    /\ offset \in 0..Len(text)
    /\ collapsed \in BOOLEAN
    /\ matchResult = Pending
    /\ DataIdle

SpecMatch == InitMatch /\ [][TextTest]_vars

DataCall ==
    /\ ~dataResult.done
    /\ dataResult' = [done |-> TRUE, data |-> dataCallback(suggestions, query)]
    /\ UNCHANGED <<suggestions, query, pluginVars, matchVars>>

InitData ==
    /\ plugin("ctor", "undef", NoPlugins)
    /\ suggestions \in SeqsUpTo(Names, MaxSuggestions)
    /\ query \in {<<91, 91>> \o t : t \in SeqsUpTo(QueryChars, MaxQuery)}
    /\ dataResult = NoData
    /\ MatchIdle

SpecData == InitData /\ [][DataCall]_vars

\* ---- properties ----
LiveInstances(e) == {i \in DOMAIN insts : insts[i].el = e /\ insts[i].status # "destroyed"}
InstancesOf(e) == {i \in DOMAIN insts : insts[i].el = e}
NoLive(rte) == rte = 0 \/ insts[rte].status = "destroyed"
Occurrences(seq, x) == Cardinality({i \in DOMAIN seq : seq[i] = x})
VisibleToolbars == {i \in DOMAIN insts : insts[i].toolbar \notin {"absent", "none"}}
startsWith(s, q) == Len(q) <= Len(s) /\ SubSeq(s, 1, Len(q)) = q
isLetter(c) == c \in 65..90 \/ c \in 97..122

\* C1: when the host passes back the instance last returned for an element
\* and that instance is not destroyed, enable returns the same instance and
\* constructs none; hence no element ever has two non-destroyed instances.
C1_ReuseNoSecond ==
    /\ [][(/\ lastOp'.op = "enable"
           /\ lastOp'.arg # 0
           /\ insts[lastOp'.arg].status # "destroyed")
          => (/\ lastOp'.ret = lastOp'.arg
              /\ Len(insts') = Len(insts))]_vars
    /\ [](\A e \in Elements : Cardinality(LiveInstances(e)) <= 1)

\* an enable that was handed a live instance has just returned it, on an
\* element whose earlier instance was destroyed and replaced
C1_Witness ==
    /\ lastOp.op = "enable" /\ lastOp.arg # 0 /\ lastOp.ret = lastOp.arg
    /\ insts[lastOp.arg].status # "destroyed"
    /\ Cardinality(InstancesOf(lastOp.el)) = 2

\* C2 as stated: enable on an element with no instance creates exactly one
\* new instance attached to it and leaves contentEditable "true", whatever
\* the library-load state and the focus state of the new instance.
C2_Original ==
    [][(/\ lastOp'.op = "enable"
        /\ InstancesOf(lastOp'.el) = {})
       => (/\ Len(insts') = Len(insts) + 1
           /\ insts'[Len(insts')].el = lastOp'.el
           /\ contentEditable'[lastOp'.el] = "true")]_vars

\* C2 amended: enable on an element with no instance, called while a library
\* constructor is available, creates exactly one new instance attached to the
\* element and returns it; contentEditable is "true" on return unless the new
\* instance already reported focus when focus() read it.
C2_Amended ==
    [][(/\ lastOp'.op = "enable"
        /\ InstancesOf(lastOp'.el) = {}
        /\ ck # "undef")
       => (/\ Len(insts') = Len(insts) + 1
           /\ insts'[Len(insts')].el = lastOp'.el
           /\ lastOp'.ret = Len(insts')
           /\ {i \in DOMAIN insts' : insts'[i].el = lastOp'.el} = {Len(insts')}
           /\ (~lastOp'.hadFocus => contentEditable'[lastOp'.el] = "true"))]_vars

\* the first enable of an element has just created its only instance and
\* made the element editable
C2_Witness ==
    /\ lastOp.op = "enable" /\ lastOp.arg = 0 /\ lastOp.ret # 0
    /\ ~lastOp.hadFocus
    /\ InstancesOf(lastOp.el) = {lastOp.ret}
    /\ contentEditable[lastOp.el] = "true"

\* C3: disable leaves contentEditable "false", creates and removes no
\* instance and changes no instance's status; an enable of the same element
\* that follows a disable handed a live instance returns that instance and
\* constructs none.
C3_DisableKeepsInstance ==
    /\ [][lastOp'.op = "disable"
          => (/\ contentEditable'[lastOp'.el] = "false"
              /\ Len(insts') = Len(insts)
              /\ \A i \in DOMAIN insts : insts'[i].status = insts[i].status)]_vars
    /\ [][(/\ lastOp.op = "disable"
           /\ lastOp.arg # 0
           /\ insts[lastOp.arg].status # "destroyed"
           /\ lastOp'.op = "enable"
           /\ lastOp'.el = lastOp.el)
          => (/\ lastOp'.ret = lastOp.arg
              /\ Len(insts') = Len(insts))]_vars

\* a disable has just run on an element that was editable, with a live
\* instance
C3_Witness ==
    /\ lastOp.op = "disable" /\ lastOp.arg # 0
    /\ insts[lastOp.arg].status = "ready"
    /\ contentEditable[lastOp.el] = "false"

\* C4 as stated: dataCallback yields exactly the suggestions whose bracketed
\* name starts with the query when letter case is ignored, in original order.
C4_Claim ==
    dataResult.done =>
        dataResult.data =
            SelectSeq(suggestions,
                      LAMBDA name : startsWith(toLowerCase(itemName(name)),
                                               toLowerCase(query)))

\* C5 as stated: every extraPlugins value passed to the editor holds
\* "sharedspace" exactly once ("a,b,sharedspace" for the comma string,
\* ["a","b","sharedspace"] for the list) and the caller's configuration is
\* not changed.
C5_Claim ==
    /\ optsPlugins = callerPlugins
    /\ \A i \in DOMAIN insts :
          /\ Occurrences(insts[i].extraPlugins.val, "sharedspace") = 1
          /\ callerPlugins.kind = "string"
                => insts[i].extraPlugins.val = <<"a", ",", "b", ",", "sharedspace">>
          /\ callerPlugins.kind = "array"
                => insts[i].extraPlugins.val = <<"a", "b", "sharedspace">>

\* the token C6 describes: "[[" followed by letters or "]" up to the caret
IntendedMatch(t, off) ==
    LET s == slice(t, off)
        hits == {i \in 0..(Len(s) - 2) :
                    /\ s[i + 1] = 91 /\ s[i + 2] = 91
                    /\ \A j \in (i + 3)..Len(s) : isLetter(s[j]) \/ s[j] = 93}
    IN IF hits = {} THEN Null
       ELSE [start |-> CHOOSE i \in hits : \A j \in hits : i <= j, end |-> off]

\* C6 as stated: textTestCallback yields null for a non-collapsed range, and
\* otherwise a match exactly when the text before the caret ends in "[["
\* followed by letters or "]" only, starting at the first "[" of that token
\* and ending at the caret.
C6_Claim ==
    matchResult # Pending =>
        /\ ~collapsed => matchResult = Null
        /\ collapsed => matchResult = IntendedMatch(text, offset)

\* C7 as stated: a supplied constructor that supports inline editing is the
\* one enable uses whatever the global holds; else a supplied URL starts a
\* fetch whose completion assigns the global; else the pre-existing global is
\* used; with no constructor and no fetch one error is logged and nothing is
\* installed.
C7_Claim ==
    /\ ckeditor = "ctor" => ck = "X"
    /\ ckeditor = "url" =>
          /\ dynamicLoad
          /\ ck = IF scriptLoaded THEN windowCK ELSE "undef"
    /\ ckeditor \in {"none", "noinline"} => ck = globalAtInit
    /\ (ck = "undef" /\ ~dynamicLoad) =>
          (logCount = 1 /\ ~customRte /\ ~posListener)

\* C8: an enable with no reusable instance while no constructor is available
\* (as during every pending URL load) logs one error, returns undefined,
\* constructs nothing and leaves contentEditable and the toolbars alone; one
\* that arrives after the load completed constructs an instance.
C8_FailsQuietly ==
    /\ []((dynamicLoad /\ ~scriptLoaded) => ck = "undef")
    /\ [][(/\ lastOp'.op = "enable"
           /\ NoLive(hostRte[lastOp'.el])
           /\ ck = "undef")
          => (/\ logCount' = logCount + 1
              /\ lastOp'.ret = 0
              /\ insts' = insts
              /\ contentEditable' = contentEditable)]_vars
    /\ [][(/\ lastOp'.op = "enable"
           /\ NoLive(hostRte[lastOp'.el])
           /\ scriptLoaded)
          => (/\ Len(insts') = Len(insts) + 1
              /\ lastOp'.ret = Len(insts')
              /\ insts'[Len(insts')].el = lastOp'.el
              /\ logCount' = logCount)]_vars

\* an enable failed while the script was loading, and an enable after the
\* load has just constructed an instance
C8_Witness ==
    /\ dynamicLoad /\ scriptLoaded /\ logCount >= 1
    /\ lastOp.op = "enable" /\ lastOp.arg = 0 /\ lastOp.ret # 0

\* C9 as stated: at most one toolbar of the shared container is displayed.
C9_Claim == Cardinality(VisibleToolbars) <= 1

\* C10 as stated: ck.plugins.add("customautocomplete", ...) is called at most
\* once.
C10_Claim == addCalls <= 1
====
